---- MODULE Spec2Model ----
(***************************************************************************)
(* Model of gurridolib's single-line nonogram engine:                      *)
(*   src/src/spaces/node.rs  Node (tri-state cell)                         *)
(*   src/src/spaces/hint.rs  HSoln::is_valid, HSoln::split, Hint::gen,     *)
(*                           RangeQueue                                    *)
(*   src/src/spaces.rs       Line::new                                     *)
(* usize arithmetic is modelled with overflow checks on (the profile the   *)
(* repository's tests run under, see tests::gen_overflow_hint): a          *)
(* subtraction a - b with a < b aborts the call.  A failed assert! aborts  *)
(* the call as well.  An aborted call returns nothing.                     *)
(***************************************************************************)
EXTENDS Integers, Sequences, FiniteSets, TLC

\* ---- bounds ------------------------------------------------------------
LineLen == 5        \* number of Nodes in the line the windows refer to
MaxHint == 4        \* largest hint length passed to is_valid / split
MaxGenHints == 2    \* longest hint list passed to Hint::gen / Line::new
MaxGenHint == 3     \* largest hint length in such a list
MaxGenNodes == 7    \* largest line length passed to Hint::gen / Line::new

VARIABLES nodes, call

vars == <<nodes, call>>

\* ---- src/src/spaces/node.rs -------------------------------------------
NodeSoln == {"UNKNOWN", "EMPTY", "FILLED"}

Node_new == "UNKNOWN"

Node_is_solved(n) == n # "UNKNOWN"

\* solution_is_filled / solution_is_empty assert is_solved() first
Node_solution_is_filled(n) ==
    [abort |-> ~Node_is_solved(n), val |-> n = "FILLED"]

Node_solution_is_empty(n) ==
    [abort |-> ~Node_is_solved(n), val |-> n = "EMPTY"]

\* Node::solve without its assertion (overwrites a solved cell)
Node_solve_unguarded(n, filled) ==
    [abort |-> FALSE, node |-> IF filled THEN "FILLED" ELSE "EMPTY"]

\* Node::solve: assert!(!self.is_solved()), then assign
Node_solve(n, filled) ==
    IF Node_is_solved(n)
    THEN [abort |-> TRUE, node |-> n]
    ELSE [abort |-> FALSE, node |-> IF filled THEN "FILLED" ELSE "EMPTY"]

Node_solve_filled(n) == Node_solve(n, TRUE)

Node_solve_empty(n) == Node_solve(n, FALSE)

\* ---- src/src/spaces/hint.rs : HSoln -----------------------------------
HSoln(o, l) == [offset |-> o, length |-> l]

\* &nodes[self.offset..self.offset + self.length]; out of range aborts
HSoln_partition(ns, offset, length) ==
    IF offset + length > Len(ns)
    THEN [abort |-> TRUE, nodes |-> <<>>]
    ELSE [abort |-> FALSE, nodes |-> SubSeq(ns, offset + 1, offset + length)]

None == <<>>

Some(v) == <<v>>

\* lines 44-47: the match on max_filled after the scan
is_valid_final(len, hint, max_filled) ==
    IF max_filled = None
    THEN [abort |-> FALSE, val |-> TRUE]
    ELSE LET j == max_filled[1]
         IN  IF len < j
             THEN [abort |-> TRUE, val |-> FALSE]
             ELSE [abort |-> FALSE, val |-> ~(len - j > hint \/ j > hint)]

\* lines 26-43: the scan over the window's nodes, from relative index i on
RECURSIVE is_valid_scan(_, _, _, _, _)
is_valid_scan(P, hint, i, min_filled, max_filled) ==
    IF i >= Len(P)
    THEN is_valid_final(Len(P), hint, max_filled)
    ELSE LET node == P[i + 1]
         IN  IF ~Node_is_solved(node)
             THEN is_valid_scan(P, hint, i + 1, min_filled, max_filled)
             ELSE IF Node_solution_is_empty(node).val
             THEN [abort |-> FALSE, val |-> FALSE]
             ELSE IF Node_solution_is_filled(node).val
             THEN IF min_filled # None /\ i < min_filled[1]
                  THEN [abort |-> TRUE, val |-> FALSE]
                  ELSE IF min_filled # None /\ i - min_filled[1] >= hint
                  THEN [abort |-> FALSE, val |-> FALSE]
                  ELSE IF min_filled = None /\ i >= hint
                  THEN [abort |-> FALSE, val |-> FALSE]
                  ELSE IF min_filled = None
                  THEN is_valid_scan(P, hint, i + 1, Some(i), max_filled)
                  ELSE is_valid_scan(P, hint, i + 1, min_filled, Some(i))
             ELSE is_valid_scan(P, hint, i + 1, min_filled, max_filled)

\* HSoln::is_valid
HSoln_is_valid(ns, offset, length, hint) ==
    LET part == HSoln_partition(ns, offset, length)
    IN  IF part.abort
        THEN [abort |-> TRUE, val |-> FALSE]
        ELSE is_valid_scan(part.nodes, hint, 0, None, None)

\* ---- src/src/spaces/hint.rs : RangeQueue ------------------------------
RangeQueue_new == <<>>

RangeQueue_is_empty(queue) == queue = <<>>

RangeQueue_front(queue) == IF queue = <<>> THEN None ELSE Some(queue[1])

RangeQueue_pop(queue) == IF queue = <<>> THEN queue ELSE Tail(queue)

\* RangeQueue::push: extend the last pair or append (value, value)
RangeQueue_push(queue, value) ==
    IF queue = <<>>
    THEN [abort |-> FALSE, queue |-> <<<<value, value>>>>]
    ELSE LET n == Len(queue)
             back == queue[n]
         IN  IF value = back[2] + 1
             THEN [abort |-> FALSE,
                   queue |-> [queue EXCEPT ![n] = <<back[1], value>>]]
             ELSE IF ~(value > back[2])
             THEN [abort |-> TRUE, queue |-> queue]
             ELSE [abort |-> FALSE, queue |-> Append(queue, <<value, value>>)]

MacAbort == [abort |-> TRUE, solutions |-> <<>>, min |-> 0, queue |-> <<>>]

\* lines 204-226: the while-let loop of map_and_clean
RECURSIVE map_and_clean_loop(_, _, _, _, _, _)
map_and_clean_loop(queue, range, min, max, clean_all, solutions) ==
    IF queue = <<>>
    THEN [abort |-> FALSE, solutions |-> solutions, min |-> min, queue |-> queue]
    ELSE LET i == queue[1][1]
             j == queue[1][2]
         IN  IF max < min                      \* max - min, line 207
             THEN MacAbort
             ELSE LET capture == range < max - min
                      sub209 == capture /\ max < i
                      constricted == max - i > range
                      sub210 == capture /\ ~sub209 /\ constricted
                                    /\ range + i < min
                      sub212 == capture /\ ~sub209 /\ ~constricted
                                    /\ (max < 1 \/ max - 1 < min)
                      sub216 == max < range
                  IN  IF sub209 \/ sub210 \/ sub212 \/ sub216
                      THEN MacAbort
                      ELSE LET sol2 == IF ~capture
                                       THEN solutions
                                       ELSE IF constricted
                                       THEN Append(solutions, <<min, range + i - min>>)
                                       ELSE Append(solutions, <<min, max - 1 - min>>)
                               behind == i <= max - range
                               queue2 == IF behind \/ clean_all
                                         THEN Tail(queue) ELSE queue
                               min2 == IF behind THEN j + 2 ELSE i
                           IN  IF min2 >= max - range /\ ~clean_all
                               THEN [abort |-> FALSE, solutions |-> sol2,
                                     min |-> min2, queue |-> queue2]
                               ELSE map_and_clean_loop(queue2, range, min2, max,
                                                       clean_all, sol2)

\* RangeQueue::map_and_clean
RangeQueue_map_and_clean(queue, range, min, max, clean_all) ==
    IF max < min
    THEN MacAbort
    ELSE IF max - min > range
    THEN map_and_clean_loop(queue, range, min, max, clean_all, <<>>)
    ELSE [abort |-> FALSE, solutions |-> <<>>, min |-> min, queue |-> queue]

\* ---- src/src/spaces/hint.rs : HSoln::split ----------------------------
SplitAbort == [abort |-> TRUE, splits |-> <<>>, ranges |-> <<>>, min |-> 0]

\* captures.iter().for_each(|&(j, length)| splits.push(HSoln {offset + j, length}))
push_captures(splits, offset, captures) ==
    splits \o [k \in 1..Len(captures) |->
                  HSoln(offset + captures[k][1], captures[k][2])]

\* the Empty arm with the trailing "min = i + 1" (line 96) left out
split_on_empty_keep_min(st, offset, hint, i) ==
    IF i < st.min
    THEN SplitAbort
    ELSE IF i - st.min > hint
    THEN IF RangeQueue_is_empty(st.ranges)
         THEN [st EXCEPT !.splits = Append(@, HSoln(offset + st.min, i - st.min))]
         ELSE LET mac == RangeQueue_map_and_clean(st.ranges, hint, st.min,
                                                  i + 1, TRUE)
              IN  IF mac.abort
                  THEN SplitAbort
                  ELSE [abort |-> FALSE,
                        splits |-> push_captures(st.splits, offset, mac.solutions),
                        ranges |-> mac.queue,
                        min |-> mac.min]
    ELSE IF i - st.min = hint
    THEN [st EXCEPT !.splits = Append(@, HSoln(offset + st.min, hint))]
    ELSE st

\* lines 69-96: a solved Empty node at relative index i
split_on_empty(st, offset, hint, i) ==
    IF i < st.min
    THEN SplitAbort
    ELSE IF i - st.min > hint
    THEN IF RangeQueue_is_empty(st.ranges)
         THEN [st EXCEPT !.splits = Append(@, HSoln(offset + st.min, i - st.min)),
                         !.min = i + 1]
         ELSE LET mac == RangeQueue_map_and_clean(st.ranges, hint, st.min,
                                                  i + 1, TRUE)
              IN  IF mac.abort
                  THEN SplitAbort
                  ELSE [abort |-> FALSE,
                        splits |-> push_captures(st.splits, offset, mac.solutions),
                        ranges |-> mac.queue,
                        min |-> i + 1]
    ELSE IF i - st.min = hint
    THEN [st EXCEPT !.splits = Append(@, HSoln(offset + st.min, hint)),
                    !.min = i + 1]
    ELSE [st EXCEPT !.min = i + 1]

\* line 129: ranges.push(i) at the end of the Filled arm
split_push_range(st, i) ==
    IF st.abort
    THEN SplitAbort
    ELSE LET pushed == RangeQueue_push(st.ranges, i)
         IN  IF pushed.abort
             THEN SplitAbort
             ELSE [st EXCEPT !.ranges = pushed.queue]

\* lines 97-130: a solved Filled node at relative index i
split_on_filled(st, offset, hint, i) ==
    IF i < st.min
    THEN SplitAbort
    ELSE IF i - st.min = hint
    THEN LET front == RangeQueue_front(st.ranges)
         IN  IF front # None /\ front[1][1] = st.min
             THEN split_push_range([st EXCEPT !.ranges = RangeQueue_pop(@),
                                              !.min = front[1][2] + 1], i)
             ELSE split_push_range([st EXCEPT !.min = @ + 1], i)
    ELSE IF i - st.min > hint
    THEN IF RangeQueue_is_empty(st.ranges)
         THEN IF st.min < i \/ st.min - i < 1      \* min - i - 1, line 113
              THEN SplitAbort
              ELSE split_push_range(
                       [st EXCEPT !.splits = Append(@, HSoln(offset + st.min,
                                                             st.min - i - 1))], i)
         ELSE LET mac == RangeQueue_map_and_clean(st.ranges, hint, st.min,
                                                  i, FALSE)
              IN  IF mac.abort
                  THEN SplitAbort
                  ELSE split_push_range(
                           [abort |-> FALSE,
                            splits |-> push_captures(st.splits, offset, mac.solutions),
                            ranges |-> mac.queue,
                            min |-> mac.min], i)
    ELSE split_push_range(st, i)

\* lines 63-131: the scan over the window's solved nodes, from index i on
RECURSIVE split_scan(_, _, _, _, _)
split_scan(P, st, offset, hint, i) ==
    IF st.abort \/ i >= Len(P)
    THEN st
    ELSE LET node == P[i + 1]
         IN  IF ~Node_is_solved(node)
             THEN split_scan(P, st, offset, hint, i + 1)
             ELSE IF Node_solution_is_empty(node).val
             THEN split_scan(P, split_on_empty(st, offset, hint, i),
                             offset, hint, i + 1)
             ELSE IF Node_solution_is_filled(node).val
             THEN split_scan(P, split_on_filled(st, offset, hint, i),
                             offset, hint, i + 1)
             ELSE split_scan(P, st, offset, hint, i + 1)

\* the last emission with an off-by-one length
split_tail_long(splits, offset, len, hint, min) ==
    IF len < min
    THEN [abort |-> TRUE, splits |-> <<>>]
    ELSE IF len - min >= hint
    THEN [abort |-> FALSE,
          splits |-> Append(splits, HSoln(min + offset, len - min + 1))]
    ELSE [abort |-> FALSE, splits |-> splits]

\* the last emission with "> hint" in place of ">= hint"
split_tail_strict(splits, offset, len, hint, min) ==
    IF len < min
    THEN [abort |-> TRUE, splits |-> <<>>]
    ELSE IF len - min > hint
    THEN [abort |-> FALSE,
          splits |-> Append(splits, HSoln(min + offset, len - min))]
    ELSE [abort |-> FALSE, splits |-> splits]

\* lines 142-149: the last emission and the return value
split_tail(splits, offset, len, hint, min) ==
    IF len < min
    THEN [abort |-> TRUE, splits |-> <<>>]
    ELSE IF len - min >= hint
    THEN [abort |-> FALSE,
          splits |-> Append(splits, HSoln(min + offset, len - min))]
    ELSE [abort |-> FALSE, splits |-> splits]

\* HSoln::split
HSoln_split(ns, offset, length, hint) ==
    LET part == HSoln_partition(ns, offset, length)
    IN  IF part.abort
        THEN [abort |-> TRUE, splits |-> <<>>]
        ELSE LET P == part.nodes
                 st == split_scan(P, [abort |-> FALSE, splits |-> <<>>,
                                      ranges |-> RangeQueue_new, min |-> 0],
                                  offset, hint, 0)
             IN  IF st.abort
                 THEN [abort |-> TRUE, splits |-> <<>>]
                 ELSE LET mac == RangeQueue_map_and_clean(st.ranges, hint, st.min,
                                                          Len(P) + 1, TRUE)
                      IN  IF mac.abort
                          THEN [abort |-> TRUE, splits |-> <<>>]
                          ELSE split_tail(push_captures(st.splits, offset,
                                                        mac.solutions),
                                          offset, Len(P), hint, mac.min)

\* ---- src/src/spaces/hint.rs : Hint::gen -------------------------------
Hint(h, o, l) == [hint |-> h, solutions |-> <<HSoln(o, l)>>]

\* hints.iter().map(|item| item + 1).sum::<usize>()
RECURSIVE SumPlusOne(_)
SumPlusOne(hints) ==
    IF hints = <<>> THEN 0 ELSE (hints[1] + 1) + SumPlusOne(Tail(hints))

\* lines 159-168: the loop pushing one Hint per hint length
RECURSIVE gen_loop(_, _, _)
gen_loop(hints, length, offset) ==
    IF hints = <<>>
    THEN <<>>
    ELSE <<Hint(hints[1], offset, length + hints[1])>>
             \o gen_loop(Tail(hints), length, offset + hints[1] + 1)

\* Hint::gen with saturating subtractions instead of checked ones
Hint_gen_saturating(hints, n) ==
    LET total == SumPlusOne(hints)
        need == IF total < 1 THEN 0 ELSE total - 1
        length == IF n < need THEN 0 ELSE n - need
    IN  [abort |-> FALSE, result |-> gen_loop(hints, length, 0)]

\* Hint::gen
Hint_gen(hints, n) ==
    LET total == SumPlusOne(hints)
    IN  IF total < 1 \/ n < total - 1
        THEN [abort |-> TRUE, result |-> <<>>]
        ELSE [abort |-> FALSE, result |-> gen_loop(hints, n - (total - 1), 0)]

\* ---- src/src/spaces.rs : Line::new ------------------------------------
Line_new(hints, length) ==
    LET g == Hint_gen(hints, length)
    IN  [abort |-> g.abort, line |-> [hints |-> g.result]]

\* ---- the caller: one line of Nodes, one call at a time -----------------
Idle ==
    [op |-> "idle", abort |-> FALSE, index |-> 0, filled |-> FALSE,
     offset |-> 0, length |-> 0, hint |-> 0, hints |-> <<>>, n |-> 0,
     valid |-> FALSE, splits |-> <<>>, result |-> <<>>]

\* windows inside the line: offset + length <= line length
Windows == {w \in (0..LineLen) \X (0..LineLen) : w[1] + w[2] <= LineLen}

RECURSIVE SeqsUpTo(_, _)
SeqsUpTo(S, k) ==
    IF k = 0
    THEN {<<>>}
    ELSE LET shorter == SeqsUpTo(S, k - 1)
         IN  shorter \cup {Append(q, x) : q \in {r \in shorter : Len(r) = k - 1},
                                          x \in S}

HintLists == SeqsUpTo(1..MaxGenHint, MaxGenHints)

\* every Node of the line starts as Node::new(); no call is in flight
Init ==
    /\ nodes = [k \in 1..LineLen |-> Node_new]
    /\ call = Idle

\* nodes[index].solve_filled()
SolveFilled ==
    /\ call.op = "idle"
    /\ \E index \in 0..(LineLen - 1) :
         LET r == Node_solve_filled(nodes[index + 1])
         IN  /\ nodes' = [nodes EXCEPT ![index + 1] = r.node]
             /\ call' = [Idle EXCEPT !.op = "solve_filled", !.index = index,
                                     !.filled = TRUE, !.abort = r.abort]

\* nodes[index].solve_empty()
SolveEmpty ==
    /\ call.op = "idle"
    /\ \E index \in 0..(LineLen - 1) :
         LET r == Node_solve_empty(nodes[index + 1])
         IN  /\ nodes' = [nodes EXCEPT ![index + 1] = r.node]
             /\ call' = [Idle EXCEPT !.op = "solve_empty", !.index = index,
                                     !.filled = FALSE, !.abort = r.abort]

\* nodes[index].solve(filled)
Solve ==
    /\ call.op = "idle"
    /\ \E index \in 0..(LineLen - 1), filled \in BOOLEAN :
         LET r == Node_solve(nodes[index + 1], filled)
         IN  /\ nodes' = [nodes EXCEPT ![index + 1] = r.node]
             /\ call' = [Idle EXCEPT !.op = "solve", !.index = index,
                                     !.filled = filled, !.abort = r.abort]

\* HSoln {offset, length}.is_valid(&nodes, hint)
IsValid ==
    /\ call.op = "idle"
    /\ \E w \in Windows, hint \in 1..MaxHint :
         LET r == HSoln_is_valid(nodes, w[1], w[2], hint)
         IN  call' = [Idle EXCEPT !.op = "is_valid", !.offset = w[1],
                                  !.length = w[2], !.hint = hint,
                                  !.abort = r.abort, !.valid = r.val]
    /\ UNCHANGED nodes

\* HSoln {offset, length}.split(&nodes, hint)
Split ==
    /\ call.op = "idle"
    /\ \E w \in Windows, hint \in 1..MaxHint :
         LET r == HSoln_split(nodes, w[1], w[2], hint)
         IN  call' = [Idle EXCEPT !.op = "split", !.offset = w[1],
                                  !.length = w[2], !.hint = hint,
                                  !.abort = r.abort, !.splits = r.splits]
    /\ UNCHANGED nodes

\* Hint::gen(hints, n)
Gen ==
    /\ call.op = "idle"
    /\ \E hints \in HintLists, n \in 0..MaxGenNodes :
         LET r == Hint_gen(hints, n)
         IN  call' = [Idle EXCEPT !.op = "gen", !.hints = hints, !.n = n,
                                  !.abort = r.abort, !.result = r.result]
    /\ UNCHANGED nodes

\* Line::new(hints, n)
LineNew ==
    /\ call.op = "idle"
    /\ \E hints \in HintLists, n \in 0..MaxGenNodes :
         LET r == Line_new(hints, n)
         IN  call' = [Idle EXCEPT !.op = "line_new", !.hints = hints, !.n = n,
                                  !.abort = r.abort, !.result = r.line.hints]
    /\ UNCHANGED nodes

\* the call has returned or aborted; the caller goes on to its next call
Return ==
    /\ call.op # "idle"
    /\ call' = Idle
    /\ UNCHANGED nodes

Next ==
    \/ SolveFilled
    \/ SolveEmpty
    \/ Solve
    \/ IsValid
    \/ Split
    \/ Gen
    \/ LineNew
    \/ Return

Spec == Init /\ [][Next]_vars

TypeOK ==
    /\ nodes \in [1..LineLen -> NodeSoln]
    /\ call.op \in {"idle", "solve_filled", "solve_empty", "solve", "is_valid",
                    "split", "gen", "line_new"}
    /\ call.abort \in BOOLEAN

\* ---- what the claims are stated over ----------------------------------
\* the cells of the window of the call in flight, 0-based
Cell(k) == nodes[call.offset + k + 1]

WindowCells == {Cell(k) : k \in 0..(call.length - 1)}

\* a run of length h can start at relative position s of the window
Feasible(s, h) ==
    /\ 0 <= s /\ s + h <= call.length
    /\ \A k \in s..(s + h - 1) : Cell(k) # "EMPTY"
    /\ (s >= 1 => Cell(s - 1) # "FILLED")
    /\ (s + h < call.length => Cell(s + h) # "FILLED")

\* last start of the maximal block of feasible starts beginning at a
RECURSIVE BlockEnd(_, _)
BlockEnd(a, h) == IF Feasible(a + 1, h) THEN BlockEnd(a + 1, h) ELSE a

\* the sub-windows of the maximal blocks of feasible starts >= s, left to right
RECURSIVE FeasibleBlocks(_, _)
FeasibleBlocks(s, h) ==
    IF s + h > call.length
    THEN <<>>
    ELSE IF Feasible(s, h)
    THEN LET b == BlockEnd(s, h)
         IN  <<HSoln(call.offset + s, b - s + h)>> \o FeasibleBlocks(b + 1, h)
    ELSE FeasibleBlocks(s + 1, h)

Returned == call.op = "split" /\ ~call.abort

Overlap(a, b) ==
    a.offset < b.offset + b.length /\ b.offset < a.offset + a.length

PairwiseDisjoint(splits) ==
    \A x, y \in 1..Len(splits) : x # y => ~Overlap(splits[x], splits[y])

RECURSIVE Sum(_)
Sum(hints) == IF hints = <<>> THEN 0 ELSE hints[1] + Sum(Tail(hints))

\* hints fit in the line: L >= sum(h_i) + (n - 1)
Fits(hints, n) == n >= Sum(hints) + (Len(hints) - 1)

\* the windows the initial-window generator is specified to produce
ExpectedGen(hints, n) ==
    LET slack == n - (Sum(hints) + Len(hints) - 1)
    IN  [i \in 1..Len(hints) |->
            Hint(hints[i], Sum(SubSeq(hints, 1, i - 1)) + (i - 1),
                 hints[i] + slack)]

SolveOps == {"solve_filled", "solve_empty", "solve"}

\* ---- the claims --------------------------------------------------------

\* C1: whenever HSoln::split returns, it returns, left to right, exactly one
\* sub-window (offset + a, b - a + h) per maximal block a..b of feasible
\* start positions of the window.
C1_SplitIsFeasibleBlocks ==
    Returned => call.splits = FeasibleBlocks(0, call.hint)

\* C2: HSoln::is_valid and HSoln::split never abort (no failed assertion, no
\* unsigned-subtraction underflow, no out-of-range index) on a window inside
\* the line.
C2_NoAbort ==
    call.op \in {"is_valid", "split"} => ~call.abort

\* C3: every sub-window returned by HSoln::split has length >= h.
C3_SplitLengthAtLeastHint ==
    Returned => \A k \in 1..Len(call.splits) : call.splits[k].length >= call.hint

\* C4: every sub-window returned by HSoln::split lies inside the input
\* window: offset <= o and o + l <= offset + length.
C4_SplitInsideWindow ==
    call.op = "split" =>
        \A k \in 1..Len(call.splits) :
            /\ call.offset <= call.splits[k].offset
            /\ call.splits[k].offset + call.splits[k].length
                   <= call.offset + call.length

C4_Witness ==
    /\ Returned
    /\ Len(call.splits) >= 2
    /\ "FILLED" \in WindowCells
    /\ call.offset > 0
    /\ call.offset + call.length < LineLen

\* C5: HSoln::is_valid returns true iff no cell of the window is Empty and
\* some start s with 0 <= s <= length - h has every Filled cell of the
\* window inside s..s+h-1.
C5_IsValidIffPlaceable ==
    call.op = "is_valid" =>
        /\ ~call.abort
        /\ call.valid =
             (/\ "EMPTY" \notin WindowCells
              /\ \E s \in 0..(call.length - call.hint) :
                     \A k \in 0..(call.length - 1) :
                         Cell(k) = "FILLED" => s <= k /\ k < s + call.hint)

\* C6: for hints that fit in the line, Hint::gen returns one window per
\* hint, in hint order, with offset = sum over earlier hints of (h_k + 1)
\* and length = h_i + slack; offsets are non-decreasing and no window
\* extends past the line.
C6_GenWindows ==
    call.op = "gen" /\ Fits(call.hints, call.n) =>
        /\ ~call.abort
        /\ call.result = ExpectedGen(call.hints, call.n)
        /\ \A i \in 1..Len(call.result) :
               LET w == call.result[i].solutions[1]
               IN  /\ w.offset + w.length <= call.n
                   /\ i > 1 => call.result[i - 1].solutions[1].offset <= w.offset

\* C7: for hints that do not fit in the line, Hint::gen and Line::new abort
\* and return no window list.
C7_GenUnderflowAborts ==
    call.op \in {"gen", "line_new"} /\ ~Fits(call.hints, call.n) =>
        call.abort /\ call.result = <<>>

C7_Witness ==
    /\ call.op = "line_new"
    /\ Len(call.hints) >= 2
    /\ call.n = Sum(call.hints)      \* room for the runs, none for the separator
    /\ ~Fits(call.hints, call.n)
    /\ call.abort

\* C8: a Node's value changes at most once: a solve call on an Unknown node
\* sets it to Filled or Empty as asked, a solve call on a solved node aborts,
\* and no step changes the value of a solved node.
C8_SolveOnce ==
    [][/\ \A k \in 1..LineLen : nodes[k] # "UNKNOWN" => nodes'[k] = nodes[k]
       /\ call'.op \in SolveOps /\ call.op = "idle" =>
              LET k == call'.index + 1
              IN  IF nodes[k] = "UNKNOWN"
                  THEN /\ ~call'.abort
                       /\ nodes'[k] = IF call'.filled THEN "FILLED" ELSE "EMPTY"
                  ELSE call'.abort]_vars

C8_Witness ==
    /\ call.op \in SolveOps
    /\ call.abort
    /\ call.filled
    /\ nodes[call.index + 1] = "EMPTY"

\* C9 as stated: the sub-windows returned by one HSoln::split call are
\* pairwise disjoint.
C9_SplitDisjoint ==
    Returned => PairwiseDisjoint(call.splits)

\* C9 as amended: when no cell of the window is Filled, the sub-windows
\* returned by one HSoln::split call are pairwise disjoint.
C9_SplitDisjointWithoutFilled ==
    Returned /\ "FILLED" \notin WindowCells => PairwiseDisjoint(call.splits)

C9_Witness ==
    /\ Returned
    /\ "FILLED" \notin WindowCells
    /\ "EMPTY" \in WindowCells
    /\ Len(call.splits) >= 2

\* C10: on a window whose cells are all Unknown, HSoln::split returns the
\* window itself when length >= h and the empty list when length < h.
C10_SplitAllUnknown ==
    call.op = "split" /\ WindowCells \subseteq {"UNKNOWN"} =>
        /\ ~call.abort
        /\ call.splits = IF call.length >= call.hint
                         THEN <<HSoln(call.offset, call.length)>>
                         ELSE <<>>

C10_Witness ==
    /\ Returned
    /\ WindowCells = {"UNKNOWN"}
    /\ call.offset > 0
    /\ call.length = call.hint
    /\ call.splits = <<HSoln(call.offset, call.length)>>
    /\ "FILLED" \in {nodes[k] : k \in 1..LineLen}

====
